---- MODULE Spec2Model ----
(***************************************************************************)
(* Model of hardware_recommender_simple_reflex.py: the rule catalog, the  *)
(* pure function recommend(ids) and the App that feeds it from checkboxes. *)
(*                                                                         *)
(* Text fields cpu, storage, gpu and labels are strings.  A note is the    *)
(* sequence of the pieces of its text with every period "." as a piece of  *)
(* its own, so that note.split('.')[0] and " | ".join(...) are computed    *)
(* rather than assumed.                                                    *)
(***************************************************************************)
EXTENDS Naturals, Sequences, FiniteSets, TLC

VARIABLES ids, pc, result, vars, status_var, out

allvars == <<ids, pc, result, vars, status_var, out>>

\* ------------------------------------------------------------------ bounds
\* longest id list handed to recommend by the general caller
MaxLen == 3
\* longest id list handed to recommend by the notes caller
NotesMaxLen == 5
\* number of catalog entries (in catalog order) the notes caller draws from
PoolSize == 6

\* ----------------------------------------------------------------- catalog
RULES ==
  <<
    [id |-> "ml",
     label |-> "AI / Machine Learning / Data Science",
     base_spec |->
       [cpu |-> "12+ core modern CPU",
        ram_gb |-> 64,
        storage |-> "1TB NVMe SSD",
        gpu |-> "High-end NVIDIA (e.g., RTX 4080/4090)",
        notes |-> <<"Heavy ML workloads need strong GPU & RAM", ".">>],
     meta |-> [cores |-> 12, ram |-> 64, storage |-> 1000, gpu_rank |-> 5]],
    [id |-> "hpc",
     label |-> "Scientific / HPC Simulation",
     base_spec |->
       [cpu |-> "16+ core CPU (multi-socket beneficial)",
        ram_gb |-> 128,
        storage |-> "2TB NVMe + Scratch SSD",
        gpu |-> "High-end or Multi-GPU",
        notes |-> <<"CPU core count & memory bandwidth critical", ".">>],
     meta |-> [cores |-> 16, ram |-> 128, storage |-> 2000, gpu_rank |-> 6]],
    [id |-> "video",
     label |-> "Video Editing / 3D / Rendering",
     base_spec |->
       [cpu |-> "8+ core CPU",
        ram_gb |-> 32,
        storage |-> "1TB NVMe SSD",
        gpu |-> "High-mid GPU (e.g., RTX 4070)",
        notes |-> <<"GPU VRAM and fast storage matter", ".">>],
     meta |-> [cores |-> 8, ram |-> 32, storage |-> 1000, gpu_rank |-> 4]],
    [id |-> "stream",
     label |-> "Streaming / Capture",
     base_spec |->
       [cpu |-> "8 core high clock CPU",
        ram_gb |-> 32,
        storage |-> "1TB NVMe SSD",
        gpu |-> "Mid-high GPU (NVENC capable)",
        notes |-> <<"Extra threads help encode + play/produce", ".">>],
     meta |-> [cores |-> 8, ram |-> 32, storage |-> 1000, gpu_rank |-> 4]],
    [id |-> "gaming",
     label |-> "Gaming (AAA)",
     base_spec |->
       [cpu |-> "6-8 core high clock CPU",
        ram_gb |-> 16,
        storage |-> "1TB NVMe SSD",
        gpu |-> "Mid-high GPU (e.g., RTX 3060/3070)",
        notes |-> <<"Balance CPU/GPU; 16GB RAM baseline", ".">>],
     meta |-> [cores |-> 8, ram |-> 16, storage |-> 1000, gpu_rank |-> 4]],
    [id |-> "vr",
     label |-> "VR / AR Development",
     base_spec |->
       [cpu |-> "8+ core CPU",
        ram_gb |-> 32,
        storage |-> "1TB NVMe SSD",
        gpu |-> "High-mid GPU (90+ FPS capable)",
        notes |-> <<"Low latency + GPU headroom important", ".">>],
     meta |-> [cores |-> 8, ram |-> 32, storage |-> 1000, gpu_rank |-> 4]],
    [id |-> "photo",
     label |-> "Photography / Graphic Design",
     base_spec |->
       [cpu |-> "6 core CPU",
        ram_gb |-> 32,
        storage |-> "1TB NVMe SSD",
        gpu |-> "Mid GPU or Integrated",
        notes |-> <<"RAM + fast scratch disk help large RAW edits", ".">>],
     meta |-> [cores |-> 6, ram |-> 32, storage |-> 1000, gpu_rank |-> 3]],
    [id |-> "audio",
     label |-> "Audio Production / DAW",
     base_spec |->
       [cpu |-> "6-8 core low-latency CPU",
        ram_gb |-> 32,
        storage |-> "1TB NVMe SSD",
        gpu |-> "Integrated or entry GPU",
        notes |-> <<"Low DPC latency and RAM for sample libraries", ".">>],
     meta |-> [cores |-> 8, ram |-> 32, storage |-> 1000, gpu_rank |-> 2]],
    [id |-> "dev",
     label |-> "Programming / Software Dev",
     base_spec |->
       [cpu |-> "6 core CPU",
        ram_gb |-> 16,
        storage |-> "512GB SSD",
        gpu |-> "Integrated or entry GPU",
        notes |-> <<"RAM helps with IDEs & containers", ".">>],
     meta |-> [cores |-> 6, ram |-> 16, storage |-> 512, gpu_rank |-> 2]],
    [id |-> "security",
     label |-> "Cybersecurity / PenTesting",
     base_spec |->
       [cpu |-> "8 core CPU",
        ram_gb |-> 32,
        storage |-> "1TB SSD",
        gpu |-> "Optional / entry GPU",
        notes |-> <<"RAM & cores for many tools / VMs", ".">>],
     meta |-> [cores |-> 8, ram |-> 32, storage |-> 1000, gpu_rank |-> 2]],
    [id |-> "office_plus",
     label |-> "Heavy Productivity (Many Tabs)",
     base_spec |->
       [cpu |-> "6 core CPU",
        ram_gb |-> 32,
        storage |-> "1TB SSD",
        gpu |-> "Integrated",
        notes |-> <<"Extra RAM keeps multitasking smooth", ".">>],
     meta |-> [cores |-> 6, ram |-> 32, storage |-> 1000, gpu_rank |-> 1]],
    [id |-> "office",
     label |-> "Light Office / Browsing",
     base_spec |->
       [cpu |-> "4 core energy-efficient CPU",
        ram_gb |-> 8,
        storage |-> "256-512GB SSD",
        gpu |-> "Integrated",
        notes |-> <<"Low intensity general tasks", ".">>],
     meta |-> [cores |-> 4, ram |-> 8, storage |-> 512, gpu_rank |-> 1]],
    [id |-> "homelab",
     label |-> "Home Lab / NAS",
     base_spec |->
       [cpu |-> "8-12 core CPU",
        ram_gb |-> 32,
        storage |-> "4TB+ mixed SSD/HDD",
        gpu |-> "Optional",
        notes |-> <<"Consider ECC RAM & redundancy", ".">>],
     meta |-> [cores |-> 12, ram |-> 32, storage |-> 4000, gpu_rank |-> 1]],
    [id |-> "server",
     label |-> "Server / Virtualization / Docker",
     base_spec |->
       [cpu |-> "12+ core CPU",
        ram_gb |-> 64,
        storage |-> "2TB SSD+",
        gpu |-> "Optional",
        notes |-> <<"Cores & RAM for many VMs/containers", ".">>],
     meta |-> [cores |-> 12, ram |-> 64, storage |-> 2000, gpu_rank |-> 1]],
    [id |-> "budget",
     label |-> "Entry Level / Budget",
     base_spec |->
       [cpu |-> "4-6 core CPU",
        ram_gb |-> 16,
        storage |-> "512GB SSD",
        gpu |-> "Integrated or basic GPU",
        notes |-> <<"Aim for balance; upgrade later", ".">>],
     meta |-> [cores |-> 6, ram |-> 16, storage |-> 512, gpu_rank |-> 1]]
  >>

DEFAULT ==
  [cpu |-> "4-6 core CPU",
   ram_gb |-> 16,
   storage |-> "512GB SSD",
   gpu |-> "Integrated or basic GPU",
   notes |-> <<"Default balanced build", ".">>]

COMBO_RULES ==
  [k \in {{"gaming", "stream"}, {"ml", "server"}, {"gaming", "vr"}} |->
    CASE k = {"gaming", "stream"} ->
      [cpu |-> "8+ core high clock CPU",
       ram_gb |-> 32,
       storage |-> "1TB NVMe SSD",
       gpu |-> "High-mid GPU (e.g., RTX 4070)",
       notes |-> <<"Streaming + gaming benefits from extra threads & RAM", ".">>]
    [] k = {"ml", "server"} ->
      [cpu |-> "16+ core CPU",
       ram_gb |-> 128,
       storage |-> "2TB NVMe SSD",
       gpu |-> "High-end NVIDIA (e.g., RTX 4090)",
       notes |-> <<"Combine ML training with virtualization headroom", ".">>]
    [] k = {"gaming", "vr"} ->
      [cpu |-> "8+ core high clock CPU",
       ram_gb |-> 32,
       storage |-> "1TB NVMe SSD",
       gpu |-> "High-mid GPU (High refresh capable)",
       notes |-> <<"VR adds latency + frame rate pressure over gaming", ".">>]]

\* the table without its rank 6
GPU_RANK_LABEL_5 ==
  [r \in 1..5 |->
    CASE r = 1 -> "Integrated"
      [] r = 2 -> "Entry GPU (e.g., GTX 1650)"
      [] r = 3 -> "Mid GPU (e.g., RTX 3050/3060)"
      [] r = 4 -> "Mid-High GPU (e.g., RTX 3070/4070)"
      [] r = 5 -> "High-End GPU (e.g., RTX 4080/4090)"]

GPU_RANK_LABEL ==
  [r \in 1..6 |->
    CASE r = 1 -> "Integrated"
      [] r = 2 -> "Entry GPU (e.g., GTX 1650)"
      [] r = 3 -> "Mid GPU (e.g., RTX 3050/3060)"
      [] r = 4 -> "Mid-High GPU (e.g., RTX 3070/4070)"
      [] r = 5 -> "High-End GPU (e.g., RTX 4080/4090)"
      [] r = 6 -> "High-End Multi-GPU / Pro"]

\* _RULE_INDEX = {wid: r for r in RULES for wid in [r[0]]}: a later entry
\* with the same id replaces an earlier one
_RULE_INDEX ==
  [w \in {RULES[k].id : k \in 1..Len(RULES)} |->
    RULES[CHOOSE k \in 1..Len(RULES) :
            /\ RULES[k].id = w
            /\ \A j \in 1..Len(RULES) : RULES[j].id = w => j <= k]]

\* ------------------------------------------------------------ the function
\* thresholds compared with > instead of >=
_scale_cpu_strict(cores) ==
  IF cores > 16 THEN "16+ core modern CPU"
  ELSE IF cores > 12 THEN "12+ core modern CPU"
  ELSE IF cores > 8 THEN "8 core high clock CPU"
  ELSE IF cores > 6 THEN "6 core CPU"
  ELSE "4 core CPU"

_scale_cpu(cores) ==
  IF cores >= 16 THEN "16+ core modern CPU"
  ELSE IF cores >= 12 THEN "12+ core modern CPU"
  ELSE IF cores >= 8 THEN "8 core high clock CPU"
  ELSE IF cores >= 6 THEN "6 core CPU"
  ELSE "4 core CPU"

_scale_storage(gb) ==
  IF gb >= 4000 THEN "4TB+ mixed SSD/HDD"
  ELSE IF gb >= 2000 THEN "2TB NVMe SSD"
  ELSE IF gb >= 1000 THEN "1TB NVMe SSD"
  ELSE IF gb >= 512 THEN "512GB SSD"
  ELSE "256-512GB SSD"

\* the scan keeps the smaller value
RECURSIVE MinScan(_, _, _)
MinScan(s, k, best) ==
  IF k > Len(s) THEN best
  ELSE MinScan(s, k + 1, IF s[k] < best THEN s[k] ELSE best)

\* Python's max over a non-empty sequence: a left-to-right scan that keeps
\* the larger value
RECURSIVE MaxScan(_, _, _)
MaxScan(s, k, best) ==
  IF k > Len(s) THEN best
  ELSE MaxScan(s, k + 1, IF s[k] > best THEN s[k] ELSE best)

\* the first value instead of the largest
PyFirst(s) == s[1]

PyMax(s) == MaxScan(s, 2, s[1])

\* note.split('.')[0]: the pieces before the first period
RECURSIVE SplitFirst(_, _)
SplitFirst(note, k) ==
  IF k > Len(note) \/ note[k] = "." THEN SubSeq(note, 1, k - 1)
  ELSE SplitFirst(note, k + 1)

NoteKey(note) == SplitFirst(note, 1)

\* " | ".join(parts)
RECURSIVE Join(_)
Join(parts) ==
  IF parts = <<>> THEN <<>>
  ELSE IF Len(parts) = 1 THEN parts[1]
  ELSE parts[1] \o <<" | ">> \o Join(Tail(parts))

\* no cap on the number of notes
CapNone(parts) == parts

\* note_parts[:4]
Cap4(parts) == SubSeq(parts, 1, IF Len(parts) < 4 THEN Len(parts) ELSE 4)

\* the outcome of a call: a returned Spec, or the KeyError raised at a line
NoSpec == [cpu |-> "", ram_gb |-> 0, storage |-> "", gpu |-> "", notes |-> <<>>]

Return(s) == [exc |-> "None", line |-> 0, value |-> s]

Raise(l) == [exc |-> "KeyError", line |-> l, value |-> NoSpec]

\* metas = [_RULE_INDEX[i][3] for i in ids if i in _RULE_INDEX]
Metas(l) ==
  LET known == SelectSeq(l, LAMBDA i : i \in DOMAIN _RULE_INDEX)
  IN  [k \in 1..Len(known) |-> _RULE_INDEX[known[k]].meta]

\* the loop "for i in ids" that merges the notes: it yields the accepted
\* notes, or stops at the first id that is not in _RULE_INDEX
RECURSIVE NotesLoop(_, _, _, _)
NotesLoop(l, k, seen, note_parts) ==
  IF k > Len(l) THEN [ok |-> TRUE, note_parts |-> note_parts]
  ELSE IF l[k] \notin DOMAIN _RULE_INDEX THEN [ok |-> FALSE, note_parts |-> note_parts]
  ELSE LET note == _RULE_INDEX[l[k]].base_spec.notes
           key == NoteKey(note)
       IN  IF key \notin seen
           THEN NotesLoop(l, k + 1, seen \cup {key}, Append(note_parts, note))
           ELSE NotesLoop(l, k + 1, seen, note_parts)

Field(metas, f) == [k \in 1..Len(metas) |-> metas[k][f]]

Aggregate(l) ==
  LET metas == Metas(l)
  IN  IF metas = <<>> THEN Return(DEFAULT)
      ELSE LET max_cores == PyMax(Field(metas, "cores"))
               max_ram == PyMax(Field(metas, "ram"))
               max_storage == PyMax(Field(metas, "storage"))
               max_gpu == PyMax(Field(metas, "gpu_rank"))
               loop == NotesLoop(l, 1, {}, <<>>)
           IN  IF ~loop.ok THEN Raise(310)
               ELSE IF max_gpu \notin DOMAIN GPU_RANK_LABEL THEN Raise(320)
               ELSE Return([cpu |-> _scale_cpu(max_cores),
                            ram_gb |-> max_ram,
                            storage |-> _scale_storage(max_storage),
                            gpu |-> GPU_RANK_LABEL[max_gpu],
                            notes |-> Join(Cap4(loop.note_parts))])

Elements(l) == {l[k] : k \in 1..Len(l)}

\* the override table is never consulted
HasComboNever(fs) == FALSE

\* "fs in COMBO_RULES"
HasCombo(fs) == fs \in DOMAIN COMBO_RULES

recommend(l) ==
  IF l = <<>> THEN Return(DEFAULT)
  ELSE LET fs == Elements(l)
       IN  IF HasCombo(fs) THEN Return(COMBO_RULES[fs])
           ELSE IF Len(l) = 1
                THEN IF l[1] \in DOMAIN _RULE_INDEX
                     THEN Return(_RULE_INDEX[l[1]].base_spec)
                     ELSE Raise(297)
                ELSE Aggregate(l)

\* ------------------------------------------------------------- the callers
\* ids that are not in the catalog
UnknownIds == {"nonexistent", "other"}

KnownIds == DOMAIN _RULE_INDEX

AllIds == KnownIds \cup UnknownIds

Pool == {RULES[k].id : k \in 1..(IF PoolSize < Len(RULES) THEN PoolSize ELSE Len(RULES))}

NoResult == [exc |-> "NotCalled", line |-> 0, value |-> NoSpec]

\* the general caller collects any ids, known or not, in any order
AddId(i) ==
  /\ pc = "input"
  /\ Len(ids) < MaxLen
  /\ ids' = Append(ids, i)
  /\ UNCHANGED <<pc, result, vars, status_var, out>>

\* the notes caller collects ids of the first PoolSize catalog entries
AddPoolId(i) ==
  /\ pc = "input"
  /\ Len(ids) < NotesMaxLen
  /\ ids' = Append(ids, i)
  /\ UNCHANGED <<pc, result, vars, status_var, out>>

\* spec = recommend(ids)
Call ==
  /\ pc = "input"
  /\ result' = recommend(ids)
  /\ pc' = "done"
  /\ UNCHANGED <<ids, vars, status_var, out>>

\* --------------------------------------------------------------------- App
CatalogIds == [k \in 1..Len(RULES) |-> RULES[k].id]

\* ids = [wid for wid, v in self.vars.items() if v.get()]; self.vars was
\* filled in the order of RULES
CheckedIds(v) == SelectSeq(CatalogIds, LAMBDA w : v[w])

\* sep.join(parts) for parts that are sequences of pieces
RECURSIVE JoinSep(_, _)
JoinSep(parts, sep) ==
  IF parts = <<>> THEN <<>>
  ELSE IF Len(parts) = 1 THEN parts[1]
  ELSE parts[1] \o <<sep>> \o JoinSep(Tail(parts), sep)

\* textwrap.fill(text, width): the line breaks are not computed, the wrapped
\* text is kept as the text together with the width it was wrapped to
Fill(text, width) == [width |-> width, text |-> text]

_format_spec(l, spec) ==
  LET picked == SelectSeq(RULES, LAMBDA r : r.id \in Elements(l))
      labels == [k \in 1..Len(picked) |-> <<picked[k].label>>]
      wl == IF labels # <<>> THEN JoinSep(labels, ", ") ELSE <<"(none)">>
      notes == IF spec.notes # <<>> THEN Fill(spec.notes, 76) ELSE Fill(<<>>, 0)
  IN  [Workloads |-> wl,
       CPU |-> spec.cpu,
       RAM |-> <<spec.ram_gb, " GB">>,
       Storage |-> spec.storage,
       GPU |-> spec.gpu,
       Notes |-> notes]

\* count = sum(1 for v in self.vars.values() if v.get()); f"{count} selected"
StatusOf(v) == <<Cardinality({w \in DOMAIN v : v[w]}), " selected">>

\* on_recommend on the checkbox values v: a KeyError out of recommend would
\* leave the output panel as it was
Recommended(v) ==
  LET l == CheckedIds(v)
      r == recommend(l)
  IN  IF r.exc = "None" THEN out' = _format_spec(l, r.value) ELSE out' = out

\* _update_output_live: _update_status, then on_recommend(auto=True)
_update_output_live(v) ==
  /\ status_var' = StatusOf(v)
  /\ Recommended(v)

\* a click on the checkbox of workload w flips its variable and runs the
\* checkbox's command
ToggleCheckbox(w) ==
  /\ vars' = [vars EXCEPT ![w] = ~@]
  /\ _update_output_live(vars')
  /\ UNCHANGED <<ids, pc, result>>

\* the Recommend button, <Return> and <Control-r>
on_recommend ==
  /\ Recommended(vars)
  /\ UNCHANGED <<ids, pc, result, vars, status_var>>

\* Clear that resets the checkboxes and leaves status and output as they were
on_clear_stale ==
  /\ vars' = [w \in DOMAIN vars |-> FALSE]
  /\ UNCHANGED <<ids, pc, result, status_var, out>>

\* the Clear button and <Control-l>
on_clear ==
  /\ vars' = [w \in DOMAIN vars |-> FALSE]
  /\ _update_output_live(vars')
  /\ UNCHANGED <<ids, pc, result>>

\* ---------------------------------------------------------- specifications
\* App.__init__: every BooleanVar False, then _update_output_live()
Init ==
  /\ ids = <<>>
  /\ pc = "input"
  /\ result = NoResult
  /\ vars = [w \in Elements(CatalogIds) |-> FALSE]
  /\ status_var = StatusOf([w \in Elements(CatalogIds) |-> FALSE])
  /\ out = _format_spec(<<>>, recommend(<<>>).value)

Next ==
  \/ \E i \in AllIds : AddId(i)
  \/ Call

Spec == Init /\ [][Next]_allvars

NextNotes ==
  \/ \E i \in Pool : AddPoolId(i)
  \/ Call

SpecNotes == Init /\ [][NextNotes]_allvars

NextApp ==
  \/ \E w \in DOMAIN vars : ToggleCheckbox(w)
  \/ on_recommend
  \/ on_clear

SpecApp == Init /\ [][NextApp]_allvars

\* -------------------------------------------------------------- properties
Done == pc = "done"

\* the largest element of a non-empty finite set of numbers
SetMax(S) == CHOOSE m \in S : \A x \in S : x <= m

ComboKeys == {{"gaming", "stream"}, {"ml", "server"}, {"gaming", "vr"}}

\* the list reaches the aggregation branch: not empty, no override, not a
\* list of exactly one element
ReachesAggregation(l) == Len(l) >= 2 /\ Elements(l) \notin ComboKeys

\* C1: a finished call whose ids, as a set, are exactly an override key
\* returned that override's Specification in all five fields (for
\* {gaming, stream} the curated "8+ core high clock CPU", 32, "1TB NVMe SSD",
\* "High-mid GPU (e.g., RTX 4070)"), which is not what aggregation gives; a
\* call whose id set is a strict subset or superset of a key did not return
\* that key's Specification.
OverridePrecedence ==
  Done =>
    LET fs == Elements(ids)
    IN  /\ \A k \in ComboKeys :
             /\ fs = k =>
                  /\ result.exc = "None"
                  /\ result.value = COMBO_RULES[k]
                  /\ result # Aggregate(ids)
             /\ (fs # k /\ (fs \subseteq k \/ k \subseteq fs)) =>
                  result.value # COMBO_RULES[k]
        /\ fs = {"gaming", "stream"} =>
             /\ result.value.cpu = "8+ core high clock CPU"
             /\ result.value.ram_gb = 32
             /\ result.value.storage = "1TB NVMe SSD"
             /\ result.value.gpu = "High-mid GPU (e.g., RTX 4070)"
             /\ result.value.notes =
                  <<"Streaming + gaming benefits from extra threads & RAM", ".">>

OverrideWitness ==
  /\ Done
  /\ ids = <<"stream", "gaming", "stream">>
  /\ result.value.gpu = "High-mid GPU (e.g., RTX 4070)"

\* C2: a finished call whose known ids are exactly {w}, whatever else the
\* list holds, and whose id set is no override key, returned the base_spec of
\* rule w verbatim.
SingletonPassthrough ==
  Done =>
    \A w \in KnownIds :
      (Elements(ids) \cap KnownIds = {w} /\ Elements(ids) \notin ComboKeys) =>
        result = Return(_RULE_INDEX[w].base_spec)

CpuTierOf(c) ==
  CASE c >= 16 -> "16+ core modern CPU"
    [] c >= 12 /\ c < 16 -> "12+ core modern CPU"
    [] c >= 8 /\ c < 12 -> "8 core high clock CPU"
    [] c >= 6 /\ c < 8 -> "6 core CPU"
    [] c < 6 -> "4 core CPU"

StorageTierOf(g) ==
  CASE g >= 4000 -> "4TB+ mixed SSD/HDD"
    [] g >= 2000 /\ g < 4000 -> "2TB NVMe SSD"
    [] g >= 1000 /\ g < 2000 -> "1TB NVMe SSD"
    [] g >= 512 /\ g < 1000 -> "512GB SSD"
    [] g < 512 -> "256-512GB SSD"

MetaSet(l, f) == {_RULE_INDEX[w].meta[f] : w \in Elements(l)}

\* C3: a finished call on two or more ids, all known and not an override
\* key, returned the CPU tier of the largest cores, the largest ram itself,
\* the storage tier of the largest storage and the label of the largest
\* gpu_rank; {office, server} gives "12+ core modern CPU", 64,
\* "2TB NVMe SSD", "Integrated".
AggregationMaxima ==
  (Done /\ ReachesAggregation(ids) /\ Elements(ids) \subseteq KnownIds) =>
    /\ result.exc = "None"
    /\ result.value.cpu = CpuTierOf(SetMax(MetaSet(ids, "cores")))
    /\ result.value.ram_gb = SetMax(MetaSet(ids, "ram"))
    /\ result.value.storage = StorageTierOf(SetMax(MetaSet(ids, "storage")))
    /\ result.value.gpu = GPU_RANK_LABEL[SetMax(MetaSet(ids, "gpu_rank"))]
    /\ Elements(ids) = {"office", "server"} =>
         /\ result.value.cpu = "12+ core modern CPU"
         /\ result.value.ram_gb = 64
         /\ result.value.storage = "2TB NVMe SSD"
         /\ result.value.gpu = "Integrated"

AggregationWitness ==
  /\ Done
  /\ ids = <<"office", "server">>
  /\ result.value.cpu = "12+ core modern CPU"
  /\ result.value.ram_gb = 64

\* C4: a finished call on a list with no known id (empty, one unknown id,
\* several unknown ids) raised nothing and returned exactly DEFAULT.
UnknownFallsBackToDefault ==
  (Done /\ Elements(ids) \cap KnownIds = {}) => result = Return(DEFAULT)

KnownOnly(l) == SelectSeq(l, LAMBDA i : i \in KnownIds)

\* C5: a finished call on two or more ids, no override key, with at least
\* one known and one unknown id raised nothing, and its maxima and notes are
\* those of the known ids alone.
UnknownIdsAbsorbed ==
  (/\ Done
   /\ ReachesAggregation(ids)
   /\ Elements(ids) \cap KnownIds # {}
   /\ Elements(ids) \cap UnknownIds # {}) =>
    /\ result.exc = "None"
    /\ result.value = Aggregate(KnownOnly(ids)).value

BaseNote(w) == _RULE_INDEX[w].base_spec.notes

\* the positions of l whose note key occurs at no earlier position
KeptPositions(l) ==
  {k \in 1..Len(l) :
     \A j \in 1..(k - 1) : NoteKey(BaseNote(l[j])) # NoteKey(BaseNote(l[k]))}

RECURSIVE Ascending(_)
Ascending(S) ==
  IF S = {} THEN <<>>
  ELSE LET m == CHOOSE x \in S : \A y \in S : x <= y
       IN  <<m>> \o Ascending(S \ {m})

Segments(notes) == Cardinality({k \in 1..Len(notes) : notes[k] = " | "}) + 1

NoRepeat(l) == \A j, k \in 1..Len(l) : l[j] = l[k] => j = k

\* C6: in the aggregation case the notes are the full base notes of the ids
\* at the positions whose note key was not seen earlier, in the given order,
\* at most the first 4 of them, joined with " | "; five or more distinct
\* workloads give exactly 4 segments, the notes of the first 4 ids given.
NotesMerge ==
  (Done /\ ReachesAggregation(ids) /\ Elements(ids) \subseteq KnownIds) =>
    LET kept == Ascending(KeptPositions(ids))
        n == IF Len(kept) < 4 THEN Len(kept) ELSE 4
    IN  /\ result.exc = "None"
        /\ result.value.notes = Join([k \in 1..n |-> BaseNote(ids[kept[k]])])
        /\ (Len(ids) >= 5 /\ NoRepeat(ids)) =>
             /\ Segments(result.value.notes) = 4
             /\ result.value.notes =
                  BaseNote(ids[1]) \o <<" | ">> \o BaseNote(ids[2]) \o <<" | ">>
                    \o BaseNote(ids[3]) \o <<" | ">> \o BaseNote(ids[4])

NotesCapWitness ==
  /\ Done
  /\ ids = <<"vr", "ml", "hpc", "video", "stream">>
  /\ Segments(result.value.notes) = 4
  /\ result.value.notes[1] = "Low latency + GPU headroom important"

Reorderings(l) ==
  {[k \in 1..Len(l) |-> l[f[k]]] : f \in Permutations(1..Len(l))}

\* C7: a finished call on known ids agrees in cpu, ram_gb, storage and gpu
\* with the call on every reordering of the same list, and agrees in notes
\* too when an override or the single-id rule answered.
OrderIndependence ==
  (Done /\ Elements(ids) \subseteq KnownIds) =>
    \A p \in Reorderings(ids) :
      LET r == recommend(p)
      IN  /\ r.exc = result.exc
          /\ r.value.cpu = result.value.cpu
          /\ r.value.ram_gb = result.value.ram_gb
          /\ r.value.storage = result.value.storage
          /\ r.value.gpu = result.value.gpu
          /\ ~ReachesAggregation(ids) => r.value.notes = result.value.notes

\* the two orders of {office, server} agree in the four fields and differ in
\* the notes
OrderWitness ==
  /\ Done
  /\ ids = <<"server", "office">>
  /\ result.value.cpu = recommend(<<"office", "server">>).value.cpu
  /\ result.value.notes # recommend(<<"office", "server">>).value.notes

\* C8: every gpu_rank of the catalog is a key of GPU_RANK_LABEL, and a
\* finished call that reached aggregation with a known id had a largest rank
\* that is a key, so the label lookup (line 320) did not fail.
GpuRankValid ==
  /\ \A k \in 1..Len(RULES) : RULES[k].meta.gpu_rank \in DOMAIN GPU_RANK_LABEL
  /\ (Done /\ ReachesAggregation(ids) /\ Metas(ids) # <<>>) =>
       /\ PyMax(Field(Metas(ids), "gpu_rank")) \in DOMAIN GPU_RANK_LABEL
       /\ result.line # 320

GpuRankWitness ==
  /\ Done
  /\ ids = <<"office", "hpc">>
  /\ result.value.gpu = "High-End Multi-GPU / Pro"

\* the position of a catalog id in RULES
CatalogPos(w) == CHOOSE k \in 1..Len(RULES) : RULES[k].id = w

DefaultText ==
  [Workloads |-> <<"(none)">>,
   CPU |-> "4-6 core CPU",
   RAM |-> <<16, " GB">>,
   Storage |-> "512GB SSD",
   GPU |-> "Integrated or basic GPU",
   Notes |-> [width |-> 76, text |-> <<"Default balanced build", ".">>]]

\* C9: in every state of the App the output panel is the formatted result of
\* recommend on the currently checked ids (distinct catalog ids in catalog
\* order, on which recommend raises nothing) and the status line is their
\* count; with nothing checked, as after Clear, the panel is the default
\* specification with workloads "(none)" and the status is "0 selected".
AppShowsCurrentSelection ==
  LET cur == CheckedIds(vars)
      r == recommend(cur)
  IN  /\ NoRepeat(cur)
      /\ Elements(cur) = {w \in DOMAIN vars : vars[w]}
      /\ \A j, k \in 1..Len(cur) : j < k => CatalogPos(cur[j]) < CatalogPos(cur[k])
      /\ r.exc = "None"
      /\ out = _format_spec(cur, r.value)
      /\ status_var = <<Len(cur), " selected">>
      /\ cur = <<>> => (out = DefaultText /\ status_var = <<0, " selected">>)

AppWitness ==
  /\ vars["office"] /\ vars["server"]
  /\ Len(CheckedIds(vars)) = 2
  /\ status_var = <<2, " selected">>
  /\ out.RAM = <<64, " GB">>
  /\ out.Workloads =
       <<"Light Office / Browsing", ", ", "Server / Virtualization / Docker">>

\* C10: a finished call on a non-empty list of known ids returned a ram_gb
\* that is at least the base_spec.ram_gb of every selected workload; every
\* rule's meta.ram equals its base_spec.ram_gb.
RamNotUnderProvisioned ==
  /\ \A k \in 1..Len(RULES) : RULES[k].meta.ram = RULES[k].base_spec.ram_gb
  /\ (Done /\ ids # <<>> /\ Elements(ids) \subseteq KnownIds) =>
       /\ result.exc = "None"
       /\ \A w \in Elements(ids) :
            result.value.ram_gb >= _RULE_INDEX[w].base_spec.ram_gb

RamWitness ==
  /\ Done
  /\ ids = <<"gaming", "vr">>
  /\ result.value.ram_gb = 32

====
